---- MODULE Spec2Model ----
(***************************************************************************)
(* Model of the taxonomic abundance trees of recentrifuge (trees.py):      *)
(* TaxTree (grow, shape, prune, get_taxa, trace, get_lineage, toxml) and   *)
(* MultiTree (grow, to_items, toxml), with KronaTree.node (krona.py).      *)
(*                                                                         *)
(* A TaxTree is a Python dict (taxid -> TaxTree) that also carries the     *)
(* attributes counts, taxlevel, score and acc.  It is modelled as a record *)
(* whose field kids is the dict, kept as the sequence of its items in      *)
(* insertion order: <<[tid |-> t, node |-> TaxTree], ...>>.  The object    *)
(* the callers hold, TaxTree(), is the top-level container: a node with    *)
(* counts 0 whose only key is ROOT once grown.                             *)
(*                                                                         *)
(* Scores are Python floats; they are modelled as exact rationals          *)
(* <<numerator, denominator>> in lowest terms.                             *)
(***************************************************************************)
EXTENDS Integers, Sequences, FiniteSets, TLC

\* ------------------------------------------------------------------------
\* Bounds of the model
\* ------------------------------------------------------------------------
MaxCount == 2

MaxMinTaxa == 2

MaxDepthArg == 3

MaxRequests == 2

MaxSamples == 2

\* the longest list of sample indexes passed to to_items
MaxIndexes == 2

\* the nesting of grow calls at which Python raises RecursionError (1000
\* frames by default): a bound deeper than any taxonomy of the model, so
\* that only a growth that does not end reaches it
RecursionLimit == 6

\* ------------------------------------------------------------------------
\* Constants of recentrifuge.config and recentrifuge.rank
\* ------------------------------------------------------------------------
ROOT == 1

\* Rank.UNCLASSIFIED, the default rank of a TaxTree; ranks are integers
\* compared as the Rank enumeration compares them
UNCLASSIFIED == 0

\* rationals -------------------------------------------------------------
RECURSIVE Gcd(_, _)
Gcd(a, b) == IF b = 0 THEN a ELSE Gcd(b, a % b)

Abs(x) == IF x < 0 THEN -x ELSE x

Rat(n, d) ==
    LET g == Gcd(Abs(n), Abs(d))
        s == IF d < 0 THEN -1 ELSE 1
    IN IF n = 0 THEN <<0, 1>> ELSE <<(s * n) \div g, (s * d) \div g>>

RatAdd(p, q) == Rat(p[1] * q[2] + q[1] * p[2], p[2] * q[2])

\* score * n / d  with n, d integers (d # 0)
RatScale(p, n, d) == Rat(p[1] * n, p[2] * d)

\* the score given to taxa with no score
NO_SCORE == <<0, 1>>

\* the default score of TaxTree.__init__ (score: float = 0)
ZeroScore == <<0, 1>>

\* dict.get(k, default) --------------------------------------------------
Get(d, k, default) == IF k \in DOMAIN d THEN d[k] ELSE default

Range(s) == {s[i] : i \in DOMAIN s}

\* ------------------------------------------------------------------------
\* Taxonomy graphs (external collaborator): children is the dict
\* taxid -> ordered children, parents the dict taxid -> parent, rank the
\* answer of get_rank
\* ------------------------------------------------------------------------
\* the chain root->2->3->4, root listed as its own child (as in NCBI)
TaxChain ==
    [children |-> (1 :> <<1, 2>>) @@ (2 :> <<3>>) @@ (3 :> <<4>>),
     parents |-> (1 :> 1) @@ (2 :> 1) @@ (3 :> 2) @@ (4 :> 3),
     rank |-> (1 :> 4) @@ (2 :> 3) @@ (3 :> 2) @@ (4 :> 1)]

\* two branches, and a child of 3 referring back to its ancestor root
TaxFork ==
    [children |-> (1 :> <<2, 3>>) @@ (2 :> <<5>>) @@ (3 :> <<4, 1>>),
     parents |-> (1 :> 1) @@ (2 :> 1) @@ (3 :> 1) @@ (4 :> 3) @@ (5 :> 2),
     rank |-> (1 :> 4) @@ (2 :> 3) @@ (3 :> 3) @@ (4 :> 1) @@ (5 :> 2)]

\* three leaves under the root, 3 listed as its own child, root as child of 4
TaxBush ==
    [children |-> (1 :> <<2, 3, 4>>) @@ (3 :> <<3>>) @@ (4 :> <<1>>),
     parents |-> (1 :> 1) @@ (2 :> 1) @@ (3 :> 1) @@ (4 :> 1),
     rank |-> (1 :> 4) @@ (2 :> 2) @@ (3 :> 1) @@ (4 :> 2)]

Taxonomies == {TaxChain, TaxFork, TaxBush}

TaxidsOf(taxonomy) == DOMAIN taxonomy.rank

get_rank(taxonomy, taxid) == Get(taxonomy.rank, taxid, UNCLASSIFIED)

\* Rank comparison
RankLt(a, b) == a < b

RankLe(a, b) == a <= b

\* ------------------------------------------------------------------------
\* TaxTree
\* ------------------------------------------------------------------------
TaxTreeInit(counts, rank, score) ==
    [counts |-> counts, taxlevel |-> rank, score |-> score, acc |-> 0,
     kids |-> <<>>]

\* the object built by TaxTree()
EmptyTree == TaxTreeInit(0, UNCLASSIFIED, ZeroScore)

Keys(self) == [i \in DOMAIN self.kids |-> self.kids[i].tid]

HasKey(self, tid) == \E i \in DOMAIN self.kids : self.kids[i].tid = tid

Child(self, tid) ==
    self.kids[CHOOSE i \in DOMAIN self.kids : self.kids[i].tid = tid].node

\* self[tid] = node: a new key goes last, an old key keeps its place
DictSet(kids, tid, node) ==
    IF \E i \in DOMAIN kids : kids[i].tid = tid
    THEN [i \in DOMAIN kids |->
            IF kids[i].tid = tid THEN [tid |-> tid, node |-> node] ELSE kids[i]]
    ELSE Append(kids, [tid |-> tid, node |-> node])

\* self.pop(tid)
DictPop(kids, tid) == SelectSeq(kids, LAMBDA k : k.tid # tid)

\* ---- grow ---------------------------------------------------------------
\* mutant: the path guard is lost
GrowGuardAlways(taxid, path) == TRUE

GrowGuard(taxid, path) == taxid \notin Range(path)

\* the outcome of a call that works on self in place: self afterwards, and
\* whether the call ended by raising
Returned(self) == [self |-> self, raised |-> FALSE]

Raised(self) == [self |-> self, raised |-> TRUE]

RECURSIVE grow(_, _, _, _, _, _), GrowChildren(_, _, _, _, _, _)
\* self.grow(taxonomy, abundances, scores, taxid, _path): self afterwards,
\* and whether RecursionError was raised.  A call whose taxid is in _path
\* does nothing at any depth; a call too deep that has a node to make raises
\* before it assigns anything; the exception ends every loop over children
\* above it and leaves the nodes assigned so far.
grow(self, taxonomy, abundances, scores, taxid, path) ==
    IF ~GrowGuard(taxid, path)
    THEN Returned(self)
    ELSE IF Len(path) >= RecursionLimit
    THEN Raised(self)
    ELSE LET node == TaxTreeInit(Get(abundances, taxid, 0),
                                 get_rank(taxonomy, taxid),
                                 Get(scores, taxid, NO_SCORE))
             grown == IF taxid \in DOMAIN taxonomy.children
                      THEN GrowChildren(node, taxonomy, abundances, scores,
                                        taxonomy.children[taxid],
                                        Append(path, taxid))
                      ELSE Returned(node)
         IN [self |-> [self EXCEPT
                         !.kids = DictSet(self.kids, taxid, grown.self)],
             raised |-> grown.raised]

\* the loop "for child in taxonomy.children[taxid]: self[taxid].grow(...)"
GrowChildren(node, taxonomy, abundances, scores, children, path) ==
    IF children = <<>> THEN Returned(node)
    ELSE LET first == grow(node, taxonomy, abundances, scores,
                           Head(children), path)
         IN IF first.raised THEN first
            ELSE GrowChildren(first.self, taxonomy, abundances, scores,
                              Tail(children), path)

\* ---- shape --------------------------------------------------------------
RECURSIVE SumAcc(_)
SumAcc(kids) ==
    IF kids = <<>> THEN 0 ELSE Head(kids).node.acc + SumAcc(Tail(kids))

\* mutant: a child's score is weighted by its own counts, not by its acc
ScoreTermByCounts(child, acc) == RatScale(child.score, child.counts, acc)

\* "self[tid].score * self[tid].acc / self.acc"
ScoreTerm(child, acc) == RatScale(child.score, child.acc, acc)

\* sum([self[tid].score * self[tid].acc / self.acc for tid in self])
RECURSIVE WeightedScore(_, _)
WeightedScore(kids, acc) ==
    IF kids = <<>> THEN <<0, 1>>
    ELSE RatAdd(ScoreTerm(Head(kids).node, acc),
                WeightedScore(Tail(kids), acc))

\* mutant: no child is ever popped
ShapeDropsNever(child) == FALSE

\* "if not self[tid].acc: self.pop(tid)"
ShapeDrops(child) == child.acc = 0

\* mutant: acc is added to what it held, "self.acc = self.counts" left out
ShapeAccNoReset(self, kids) == self.acc + self.counts + SumAcc(kids)

\* mutant: the node's own counts are left out of acc
ShapeAccChildrenOnly(self, kids) == SumAcc(kids)

\* "self.acc = self.counts" and then "self.acc += self[tid].acc" per child
ShapeAcc(self, kids) == self.counts + SumAcc(kids)

RECURSIVE shape(_), ShapeKids(_)
shape(self) ==
    LET kids == ShapeKids(self.kids)
        acc == ShapeAcc(self, kids)
    IN [self EXCEPT
          !.kids = kids,
          !.acc = acc,
          !.score = IF self.counts = 0 /\ acc # 0
                    THEN WeightedScore(kids, acc)
                    ELSE self.score]

\* the loop over list(self): shape each child, pop it or keep it
ShapeKids(kids) ==
    IF kids = <<>> THEN <<>>
    ELSE LET child == shape(Head(kids).node)
         IN IF ShapeDrops(child)
            THEN ShapeKids(Tail(kids))
            ELSE <<[tid |-> Head(kids).tid, node |-> child]>>
                 \o ShapeKids(Tail(kids))

\* ---- prune --------------------------------------------------------------
\* mutant: "<" against min_taxa - 1, a leaf one count short stays
PruneTestOneShort(self, child, min_taxa, min_rank) ==
    \/ child.counts < min_taxa - 1
    \/ /\ min_rank # <<>>
       /\ \/ RankLt(child.taxlevel, min_rank[1])
          \/ RankLe(self.taxlevel, min_rank[1])

\* min_rank is None (<<>>) or a rank (<<r>>)
PruneTest(self, child, min_taxa, min_rank) ==
    \/ child.counts < min_taxa
    \/ /\ min_rank # <<>>
       /\ \/ RankLt(child.taxlevel, min_rank[1])
          \/ RankLe(self.taxlevel, min_rank[1])

\* mutant: "if self.counts" for "if collapsed_counts"
CollapseIfOwnCounts(self, child) ==
    LET collapsed_counts == self.counts + child.counts
    IN IF self.counts # 0
       THEN [self EXCEPT
               !.score = Rat(self.score[1] * self.counts * child.score[2]
                             + child.score[1] * child.counts * self.score[2],
                             self.score[2] * child.score[2] * collapsed_counts),
               !.counts = collapsed_counts]
       ELSE self

\* the collapse branch: counts and score of self after folding child in
Collapse(self, child) ==
    LET collapsed_counts == self.counts + child.counts
    IN IF collapsed_counts # 0
       THEN [self EXCEPT
               !.score = Rat(self.score[1] * self.counts * child.score[2]
                             + child.score[1] * child.counts * self.score[2],
                             self.score[2] * child.score[2] * collapsed_counts),
               !.counts = collapsed_counts]
       ELSE self

\* mutant: the leaf's counts are subtracted with no floor at 0
EraseLeafNoFloor(self, child) ==
    [self EXCEPT !.acc = self.acc - child.counts]

\* the no-collapse branch: acc of self after erasing the leaf's counts
EraseLeaf(self, child) ==
    IF self.acc > child.counts
    THEN [self EXCEPT !.acc = self.acc - child.counts]
    ELSE [self EXCEPT !.acc = 0]

\* mutant: "return True", every pruned child counts as a branch
PruneReturnAlways(self) == TRUE

\* mutant: the value the docstring announces, "True if this node is a leaf"
PruneReturnIsLeaf(self) == self.kids = <<>>

\* "return bool(self)": True if the node has branches when prune ends
PruneReturn(self) == self.kids # <<>>

RECURSIVE prune(_, _, _, _), PruneLoop(_, _, _, _, _)
\* self.prune(min_taxa, min_rank, collapse): self afterwards
\* (the value returned is PruneReturn of it)
prune(self, min_taxa, min_rank, collapse) ==
    PruneLoop(self, Keys(self), min_taxa, min_rank, collapse)

PruneLoop(self, tids, min_taxa, min_rank, collapse) ==
    IF tids = <<>> THEN self
    ELSE
      LET tid == Head(tids)
          before == Child(self, tid)
          \* "self[tid] and self[tid].prune(...)": prune runs only on a
          \* child that has branches, and changes it in place
          child == IF before.kids # <<>>
                   THEN prune(before, min_taxa, min_rank, collapse)
                   ELSE before
          self1 == [self EXCEPT !.kids = DictSet(self.kids, tid, child)]
          \* "if self[tid] and self[tid].prune(...)": nothing to do
          self2 ==
            IF before.kids # <<>> /\ PruneReturn(child) THEN self1
            ELSE IF PruneTest(self1, child, min_taxa, min_rank)
            THEN LET moved == IF collapse THEN Collapse(self1, child)
                              ELSE EraseLeaf(self1, child)
                 IN [moved EXCEPT !.kids = DictPop(moved.kids, tid)]
            ELSE self1
      IN PruneLoop(self2, Tail(tids), min_taxa, min_rank, collapse)

\* ---- get_taxa ----------------------------------------------------------
\* dict[k] = v
Put(d, k, v) == (k :> v) @@ d

\* An output dict of get_taxa is None (<<>>) or a dict d (<<d>>).
\* the four output dicts at their defaults: None, nothing is recorded
NoTaxa == [abundance |-> <<>>, accs |-> <<>>, scores |-> <<>>, ranks |-> <<>>]

\* an empty dict passed for an output
EmptyDict == <<<<>>>>

\* get_taxa(ranks=ranks, ...) with ranks an empty dict, as rextract calls it
RanksOnly == [NoTaxa EXCEPT !.ranks = EmptyDict]

\* get_taxa(abundance={}, accs={}): the two counters of a sample
CountersOnly == [NoTaxa EXCEPT !.abundance = EmptyDict, !.accs = EmptyDict]

\* get_taxa(abundance, accs, scores) with the three dicts empty: what
\* MultiTree.grow is fed for a sample
SampleTaxa ==
    [abundance |-> EmptyDict, accs |-> EmptyDict, scores |-> EmptyDict,
     ranks |-> <<>>]

\* the output dicts a call passes
TaxaArgs == {NoTaxa, RanksOnly, CountersOnly, SampleTaxa}

\* "if d is not None: d[k] = v"
PutIfGiven(d, k, v) == IF d = <<>> THEN d ELSE <<Put(d[1], k, v)>>

\* "if maxdepth != 1" fails: the level is not visited
DepthStop(maxdepth) == maxdepth = 1

\* mutant: the exclude list is not looked at
InBranchNoExclude(in_branch, include, exclude, tid) ==
    \/ in_branch
    \/ include = {}
    \/ tid \in include

InBranch(in_branch, include, exclude, tid) ==
    /\ \/ in_branch
       \/ include = {}
       \/ tid \in include
    /\ tid \notin exclude

\* mutant: accs gets the node's own counts
RecordOwnCounts(outs, tid, node) ==
    [abundance |-> PutIfGiven(outs.abundance, tid, node.counts),
     accs |-> PutIfGiven(outs.accs, tid, node.counts),
     scores |-> IF node.score # NO_SCORE
                THEN PutIfGiven(outs.scores, tid, node.score)
                ELSE outs.scores,
     ranks |-> PutIfGiven(outs.ranks, tid, node.taxlevel)]

\* the assignments made for a qualifying taxid, each into a dict that was
\* passed: "if abundance is not None", "if accs is not None", "if scores is
\* not None and self[tid].score != NO_SCORE", "if ranks is not None"
Record(outs, tid, node) ==
    [abundance |-> PutIfGiven(outs.abundance, tid, node.counts),
     accs |-> PutIfGiven(outs.accs, tid, node.acc),
     scores |-> IF node.score # NO_SCORE
                THEN PutIfGiven(outs.scores, tid, node.score)
                ELSE outs.scores,
     ranks |-> PutIfGiven(outs.ranks, tid, node.taxlevel)]

RECURSIVE get_taxa(_, _, _, _, _, _, _, _), GetTaxaLoop(_, _, _, _, _, _, _, _)
\* self.get_taxa(abundance, accs, scores, ranks, mindepth, maxdepth, include,
\* exclude, just_level, _in_branch): the output dicts afterwards, outs being
\* those the call passes.
\* just_level is None (<<>>) or a rank (<<r>>)
get_taxa(self, outs, mindepth, maxdepth, include, exclude, just_level, in_branch) ==
    IF DepthStop(maxdepth) THEN outs
    ELSE GetTaxaLoop(self.kids, outs, mindepth - 1, maxdepth - 1, include,
                     exclude, just_level, in_branch)

GetTaxaLoop(kids, outs, mindepth, maxdepth, include, exclude, just_level, in_branch) ==
    IF kids = <<>> THEN outs
    ELSE
      LET tid == Head(kids).tid
          node == Head(kids).node
          branch == InBranch(in_branch, include, exclude, tid)
          outs1 == IF /\ mindepth <= 0
                      /\ branch
                      /\ (just_level = <<>> \/ node.taxlevel = just_level[1])
                   THEN Record(outs, tid, node)
                   ELSE outs
          outs2 == IF node.kids # <<>>
                   THEN get_taxa(node, outs1, mindepth, maxdepth, include,
                                 exclude, just_level, branch)
                   ELSE outs1
      IN GetTaxaLoop(Tail(kids), outs2, mindepth, maxdepth, include, exclude,
                     just_level, in_branch)

\* ---- trace and get_lineage ----------------------------------------------
\* mutant: the taxid of a failed subtree is left in nodes
PopNothing(nodes) == nodes

\* mutant: nodes.pop(0), the oldest taxid is removed
PopFirst(nodes) == Tail(nodes)

\* nodes.pop()
Pop(nodes) == SubSeq(nodes, 1, Len(nodes) - 1)

\* "if target in self[tid] and target != ROOT"
TraceHit(node, target) == HasKey(node, target) /\ target # ROOT

RECURSIVE trace(_, _, _), TraceLoop(_, _, _)
\* self.trace(target, nodes): the value returned and nodes afterwards
trace(self, target, nodes) == TraceLoop(self.kids, target, nodes)

TraceLoop(kids, target, nodes) ==
    IF kids = <<>> THEN [found |-> FALSE, nodes |-> nodes]
    ELSE IF Head(kids).node.kids # <<>>
    THEN LET appended == Append(nodes, Head(kids).tid)
         IN IF TraceHit(Head(kids).node, target)
            THEN [found |-> TRUE, nodes |-> Append(appended, target)]
            ELSE LET below == trace(Head(kids).node, target, appended)
                 IN IF below.found THEN below
                    ELSE TraceLoop(Tail(kids), target, Pop(below.nodes))
    ELSE TraceLoop(Tail(kids), target, nodes)

\* the two warnings written to the log
MissingInTree(tid) == [warning |-> "missing in tree", tid |-> tid]

MissingInParents(tid) == [warning |-> "missing in parents", tid |-> tid]

\* one turn of the loop "for tid in taxids" on (log, nodes_traced)
LineageStep(self, parents, tid, acc) ==
    IF tid = ROOT
    THEN [acc EXCEPT !.nodes_traced = Put(acc.nodes_traced, ROOT, <<ROOT>>)]
    ELSE IF tid \in DOMAIN parents
    THEN LET traced == trace(self, tid, <<>>)
         IN IF traced.found
            THEN [acc EXCEPT
                    !.nodes_traced = Put(acc.nodes_traced, tid, traced.nodes)]
            ELSE [acc EXCEPT !.log = Append(acc.log, MissingInTree(tid))]
    ELSE [acc EXCEPT !.log = Append(acc.log, MissingInParents(tid))]

\* mutant: the loop over taxids ends at the first warning
RECURSIVE LineageLoopBreak(_, _, _, _)
LineageLoopBreak(self, parents, taxids, acc) ==
    IF taxids = <<>> THEN acc
    ELSE LET after == LineageStep(self, parents, Head(taxids), acc)
         IN IF after.log # acc.log THEN after
            ELSE LineageLoopBreak(self, parents, Tail(taxids), after)

RECURSIVE LineageLoop(_, _, _, _)
LineageLoop(self, parents, taxids, acc) ==
    IF taxids = <<>> THEN acc
    ELSE LineageLoop(self, parents, Tail(taxids),
                     LineageStep(self, parents, Head(taxids), acc))

\* self.get_lineage(parents, taxids): the warnings of the log, nodes_traced
get_lineage(self, parents, taxids) ==
    LineageLoop(self, parents, taxids, [log |-> <<>>, nodes_traced |-> <<>>])

\* ------------------------------------------------------------------------
\* MultiTree
\* ------------------------------------------------------------------------
\* MultiTree(samples, counts, accs, rank, scores): the dicts by sample become
\* lists in the order of samples
MultiTreeInit(samples, counts, accs, rank, multi_scores) ==
    [samples |-> samples,
     taxlevel |-> rank,
     counts |-> [i \in DOMAIN samples |-> counts[samples[i]]],
     accs |-> [i \in DOMAIN samples |-> accs[samples[i]]],
     score |-> [i \in DOMAIN samples |-> multi_scores[samples[i]]],
     kids |-> <<>>]

\* MultiTree(samples=samples): the arguments left None
EmptyMultiTree(samples) ==
    MultiTreeInit(samples,
                  [s \in Range(samples) |-> 0],
                  [s \in Range(samples) |-> 0],
                  UNCLASSIFIED,
                  [s \in Range(samples) |-> NO_SCORE])

\* "if not abundances: abundances = {sample: ... for sample in self.samples}"
MultiDefault(d, samples, default) ==
    IF DOMAIN d = {} THEN [s \in Range(samples) |-> default] ELSE d

\* mutant: all() for any()
AllAcc(multi_acc) == \A s \in DOMAIN multi_acc : multi_acc[s] # 0

\* "if any(multi_acc.values())"
AnyAcc(multi_acc) == \E s \in DOMAIN multi_acc : multi_acc[s] # 0

RECURSIVE MultiTree_grow(_, _, _, _, _, _, _), MultiGrowChildren(_, _, _, _, _, _, _)
\* self.grow(taxonomy, abundances, accs, scores, taxid, _path): self
\* afterwards, and whether RecursionError was raised: by a call too deep
\* that has a node to make, its taxid not in _path and populated in a sample
MultiTree_grow(self, taxonomy, abundances0, accs0, scores0, taxid, path) ==
    LET samples == self.samples
        abunds == MultiDefault(abundances0, samples, (ROOT :> 1))
        accs == MultiDefault(accs0, samples, (ROOT :> 1))
        mscores == MultiDefault(scores0, samples, <<>>)
    IN
    IF GrowGuard(taxid, path)
    THEN LET multi_count == [s \in Range(samples) |-> Get(abunds[s], taxid, 0)]
             multi_acc == [s \in Range(samples) |-> Get(accs[s], taxid, 0)]
             multi_score ==
                 [s \in Range(samples) |-> Get(mscores[s], taxid, NO_SCORE)]
         IN IF ~AnyAcc(multi_acc)
            THEN Returned(self)
            ELSE IF Len(path) >= RecursionLimit
            THEN Raised(self)
            ELSE LET node == MultiTreeInit(samples, multi_count, multi_acc,
                                           get_rank(taxonomy, taxid),
                                           multi_score)
                     grown == IF taxid \in DOMAIN taxonomy.children
                              THEN MultiGrowChildren(
                                     node, taxonomy, abunds, accs, mscores,
                                     taxonomy.children[taxid],
                                     Append(path, taxid))
                              ELSE Returned(node)
                 IN [self |-> [self EXCEPT
                                 !.kids = DictSet(self.kids, taxid,
                                                  grown.self)],
                     raised |-> grown.raised]
    ELSE Returned(self)

MultiGrowChildren(node, taxonomy, abunds, accs, mscores, children, path) ==
    IF children = <<>> THEN Returned(node)
    ELSE LET first == MultiTree_grow(node, taxonomy, abunds, accs, mscores,
                                     Head(children), path)
         IN IF first.raised THEN first
            ELSE MultiGrowChildren(first.self, taxonomy, abunds, accs,
                                   mscores, Tail(children), path)

\* ---- to_items ----------------------------------------------------------
\* the cells of a row, by their Python type
IntCell(n) == [int |-> n]

FloatCell(r) == [float |-> r]

StrCell(s) == [str |-> s]

\* taxonomy.get_rank(tid).name.lower() and taxonomy.get_name(tid): the
\* strings the taxonomy holds for the taxid, as cells; the str itself, never
\* empty, is the field str
RankName(taxonomy, tid) == StrCell(<<"rank", get_rank(taxonomy, tid)>>)

get_name(taxonomy, tid) == StrCell(<<"name", tid>>)

\* mutant: the count is put before the accumulated count
SampleCellsCountFirst(node, i) ==
    <<IntCell(node.counts[i]), IntCell(node.accs[i]), FloatCell(node.score[i])>>

\* "list_row.extend([self[tid].accs[i], self[tid].counts[i],
\*                   self[tid].score[i]])"
SampleCells(node, i) ==
    <<IntCell(node.accs[i]), IntCell(node.counts[i]), FloatCell(node.score[i])>>

RECURSIVE FullRow(_, _)
\* the loop "for i in range(len(self.samples))", over the first n samples
FullRow(node, n) ==
    IF n = 0 THEN <<>> ELSE FullRow(node, n - 1) \o SampleCells(node, n)

\* list_row of one child; sample_indexes holds Python indexes (from 0) and
\* is <<>> when it is None or empty ("if sample_indexes:" fails for both)
ItemRow(self, node, taxonomy, tid, sample_indexes) ==
    IF sample_indexes # <<>>
    THEN [k \in DOMAIN sample_indexes |->
            IntCell(node.counts[sample_indexes[k] + 1])]
    ELSE FullRow(node, Len(self.samples))
         \o <<RankName(taxonomy, tid), get_name(taxonomy, tid)>>

RECURSIVE to_items(_, _, _, _), ToItemsLoop(_, _, _, _, _)
\* self.to_items(taxonomy, items, sample_indexes): items afterwards
to_items(self, taxonomy, items, sample_indexes) ==
    ToItemsLoop(self, self.kids, taxonomy, items, sample_indexes)

\* the loop "for tid in self": append the row, then go below
ToItemsLoop(self, kids, taxonomy, items, sample_indexes) ==
    IF kids = <<>> THEN items
    ELSE
      LET tid == Head(kids).tid
          node == Head(kids).node
          items1 == Append(items, <<tid, ItemRow(self, node, taxonomy, tid,
                                                 sample_indexes)>>)
          items2 == IF node.kids # <<>>
                    THEN to_items(node, taxonomy, items1, sample_indexes)
                    ELSE items1
      IN ToItemsLoop(self, Tail(kids), taxonomy, items2, sample_indexes)

\* ------------------------------------------------------------------------
\* KronaTree (krona.py) and the XML export of the trees
\* ------------------------------------------------------------------------
\* A Python str is the sequence of its characters; an Optional[str] is <<>>
\* for None and <<s>> for the string s.
DigitChars == <<"0", "1", "2", "3", "4", "5", "6", "7", "8", "9">>

RECURSIVE Digits(_)
Digits(n) ==
    IF n < 10 THEN <<DigitChars[n + 1]>>
    ELSE Append(Digits(n \div 10), DigitChars[(n % 10) + 1])

\* str(n) of an int
IntStr(n) == IF n < 0 THEN <<"-">> \o Digits(-n) ELSE Digits(n)

DigitValue(c) == (CHOOSE i \in DOMAIN DigitChars : DigitChars[i] = c) - 1

RECURSIVE DigitsValue(_)
DigitsValue(s) ==
    IF s = <<>> THEN 0
    ELSE 10 * DigitsValue(SubSeq(s, 1, Len(s) - 1)) + DigitValue(s[Len(s)])

\* int(s) of a decimal string
StrInt(s) ==
    IF s # <<>> /\ s[1] = "-" THEN -DigitsValue(Tail(s)) ELSE DigitsValue(s)

\* bool(s) of a str: the empty string alone is false
StrTruthy(s) == s # <<>>

\* str(score) of a float and f'{score:.1f}': the text of the float, kept as
\* the format and the value
FloatStr(score) == <<"str", score>>

FloatFmt1(score) == <<"%.1f", score>>

\* KronaTree(samples): samples, the <node> elements made so far in document
\* order, and the exception that ended the export (<<>> if none)
KronaTreeInit(samples) == [samples |-> samples, nodes |-> <<>>, raised |-> <<>>]

\* krona.getroot(): the <krona> element, element 0; the <node> elements are
\* numbered from 1 in the order of their creation
getroot(krona) == 0

\* "if int(counts_value) == 0: counts_value = None"
ValText(value) == IF StrInt(value) = 0 THEN <<>> ELSE <<value>>

\* "values.get(UNASSIGNED) and any(values[UNASSIGNED].values())": the dict
\* is not empty and one of its values, a str, is true
AnyUnassigned(values) ==
    /\ DOMAIN values.unassigned # {}
    /\ \E s \in DOMAIN values.unassigned : StrTruthy(values.unassigned[s])

\* "values.get(SCORE)": the dict of scores is not empty
AnyScore(values) == DOMAIN values.score # {}

\* krona.node(parent, name, values): krona with the new <node> appended; the
\* element returned is the last one, Len(nodes).  values holds count,
\* unassigned and score by sample and the strings tid and rank; name, tid
\* and rank are str.  The elements unassigned, tid, rank and score are made
\* only when their value is true.
KronaNode(krona, parent, name, values) ==
    LET n == Len(krona.samples)
        elem ==
          [parent |-> parent,
           name |-> name,
           count |-> [i \in 1..n |-> ValText(values.count[krona.samples[i]])],
           unassigned |->
             IF AnyUnassigned(values)
             THEN <<[i \in 1..n |->
                       ValText(values.unassigned[krona.samples[i]])]>>
             ELSE <<>>,
           tid |-> IF StrTruthy(values.tid) THEN <<values.tid>> ELSE <<>>,
           rank |-> IF StrTruthy(values.rank) THEN <<values.rank>> ELSE <<>>,
           score |->
             IF AnyScore(values)
             THEN <<[i \in 1..n |-> values.score[krona.samples[i]]]>>
             ELSE <<>>]
    IN [krona EXCEPT !.nodes = Append(krona.nodes, elem)]

\* ---- TaxTree.toxml ------------------------------------------------------
\* the values TaxTree.toxml passes for a child: one sample, krona.samples[0]
TaxValues(krona, taxonomy, tid, child) ==
    [count |-> (krona.samples[1] :> IntStr(child.acc)),
     unassigned |-> (krona.samples[1] :> IntStr(child.counts)),
     tid |-> IntStr(tid),
     rank |-> RankName(taxonomy, tid).str,
     score |-> (krona.samples[1] :> FloatStr(child.score))]

\* reading the local new_node before any assignment to it
UnboundLocalError == <<"UnboundLocalError">>

RECURSIVE toxml(_, _, _, _, _, _, _, _, _), ToXmlLoop(_, _, _, _, _, _, _, _, _, _, _)
\* self.toxml(taxonomy, krona, node, mindepth, maxdepth, include, exclude,
\* _in_branch): krona afterwards.  node is <<>> for None or <<element>>.
toxml(self, taxonomy, krona, node, mindepth, maxdepth, include, exclude, in_branch) ==
    IF DepthStop(maxdepth) THEN krona
    ELSE ToXmlLoop(self, self.kids, taxonomy, krona, node, <<>>,
                   mindepth - 1, maxdepth - 1, include, exclude, in_branch)

\* the loop "for tid in self"; it carries node and the local new_node, which
\* is <<>> until its first assignment and keeps the element of the last
\* child that was exported
ToXmlLoop(self, kids, taxonomy, krona, node, new_node, mindepth, maxdepth, include, exclude, in_branch0) ==
    IF kids = <<>> \/ krona.raised # <<>> THEN krona
    ELSE
      LET tid == Head(kids).tid
          child == Head(kids).node
          in_branch == InBranch(in_branch0, include, exclude, tid)
          emit == mindepth <= 0 /\ in_branch
          node1 == IF emit /\ node = <<>> THEN <<getroot(krona)>> ELSE node
          krona1 == IF emit
                    THEN KronaNode(krona, node1[1], get_name(taxonomy, tid).str,
                                   TaxValues(krona, taxonomy, tid, child))
                    ELSE krona
          new1 == IF emit THEN <<Len(krona1.nodes)>> ELSE new_node
          krona2 ==
            IF child.kids = <<>> THEN krona1
            ELSE IF new1 = <<>>
            THEN [krona1 EXCEPT !.raised = UnboundLocalError]
            ELSE toxml(child, taxonomy, krona1, new1, mindepth, maxdepth,
                       include, exclude, in_branch)
      IN ToXmlLoop(self, Tail(kids), taxonomy, krona2, node1, new1,
                   mindepth, maxdepth, include, exclude, in_branch0)

\* ---- MultiTree.toxml ----------------------------------------------------
\* "f'{score:.1f}' if score != NO_SCORE else '0'"
MultiScoreStr(score) == IF score # NO_SCORE THEN FloatFmt1(score) ELSE IntStr(0)

\* the values MultiTree.toxml passes for a child, by sample of the tree
MultiValues(self, taxonomy, tid, child) ==
    LET idx(s) == CHOOSE i \in DOMAIN self.samples : self.samples[i] = s
    IN [count |-> [s \in Range(self.samples) |-> IntStr(child.accs[idx(s)])],
        unassigned |->
          [s \in Range(self.samples) |-> IntStr(child.counts[idx(s)])],
        tid |-> IntStr(tid),
        rank |-> RankName(taxonomy, tid).str,
        score |->
          [s \in Range(self.samples) |-> MultiScoreStr(child.score[idx(s)])]]

RECURSIVE MultiTree_toxml(_, _, _, _), MultiToXmlLoop(_, _, _, _, _)
\* self.toxml(taxonomy, krona, node): krona afterwards
MultiTree_toxml(self, taxonomy, krona, node) ==
    MultiToXmlLoop(self, self.kids, taxonomy, krona, node)

MultiToXmlLoop(self, kids, taxonomy, krona, node) ==
    IF kids = <<>> THEN krona
    ELSE
      LET tid == Head(kids).tid
          child == Head(kids).node
          node1 == IF node = <<>> THEN <<getroot(krona)>> ELSE node
          krona1 == KronaNode(krona, node1[1], get_name(taxonomy, tid).str,
                              MultiValues(self, taxonomy, tid, child))
          new_node == <<Len(krona1.nodes)>>
          krona2 == IF child.kids # <<>>
                    THEN MultiTree_toxml(child, taxonomy, krona1, new_node)
                    ELSE krona1
      IN MultiToXmlLoop(self, Tail(kids), taxonomy, krona2, node1)

\* ------------------------------------------------------------------------
\* Inputs of one sample
\* ------------------------------------------------------------------------
\* Counter of taxids: the taxids seen, each with a positive count
CountersOf(tx) ==
    UNION {[S -> 1..MaxCount] : S \in SUBSET TaxidsOf(tx)}

\* the Counters in which every taxid seen was seen once
PresenceCountersOf(tx) == {[t \in S |-> 1] : S \in SUBSET TaxidsOf(tx)}

\* one score per taxid seen
ScoredAll(counter) == [t \in DOMAIN counter |-> <<t, 1>>]

\* mutant: an empty Counter is used as it is
AbundancesAsGiven(counter) == counter

\* "if not abundances: abundances = col.Counter({ROOT: 1})"
AbundancesOrDefault(counter) ==
    IF DOMAIN counter = {} THEN (ROOT :> 1) ELSE counter

\* a taxid no taxonomy knows
UnknownTaxids == {9}

RECURSIVE SeqsUpTo(_, _)
SeqsUpTo(S, n) ==
    IF n = 0 THEN {<<>>}
    ELSE LET shorter == SeqsUpTo(S, n - 1)
         IN shorter \cup {Append(q, x) : q \in shorter, x \in S}

\* the include and exclude arguments tried: empty or one taxid
TaxidSets(tx) == {{}} \cup {{t} : t \in TaxidsOf(tx)}

\* the min_rank and just_level arguments tried: None or a rank
RankArgs == {<<>>, <<2>>}

SampleNames == <<"S1", "S2", "S3">>

\* ------------------------------------------------------------------------
\* State
\* ------------------------------------------------------------------------
VARIABLES
    taxonomy,     \* the Taxonomy object
    abundances,   \* the sample's Counter taxid -> count
    scores,       \* the sample's dict taxid -> score
    tree,         \* the TaxTree container of the sample
    op,           \* the last operation and its arguments
    out,          \* what the last query returned
    done,         \* the dicts extracted from the samples shaped so far
    mtree         \* the MultiTree container

vars == <<taxonomy, abundances, scores, tree, op, out, done, mtree>>

NoOut == [none |-> TRUE]

Fresh ==
    /\ tree = EmptyTree
    /\ op = [name |-> "init"]
    /\ out = NoOut
    /\ done = <<>>
    /\ mtree = EmptyMultiTree(<<>>)

Init ==
    /\ taxonomy \in Taxonomies
    /\ abundances \in CountersOf(taxonomy)
    /\ scores = ScoredAll(abundances)
    /\ Fresh

\* tree = TaxTree(); tree.grow(taxonomy, abundances, scores)
Grow ==
    /\ op.name = "init"
    /\ LET grown == grow(EmptyTree, taxonomy, AbundancesOrDefault(abundances),
                         scores, ROOT, <<>>)
       IN /\ tree' = grown.self
          /\ op' = [name |-> IF grown.raised THEN "RecursionError"
                             ELSE "grow"]
    /\ UNCHANGED <<taxonomy, abundances, scores, out, done, mtree>>

Mutable == op.name \in {"grow", "shape", "prune"}

\* tree.shape()
Shape ==
    /\ Mutable
    /\ tree' = shape(tree)
    /\ op' = [name |-> "shape"]
    /\ UNCHANGED <<taxonomy, abundances, scores, out, done, mtree>>

\* tree.prune(min_taxa, min_rank, collapse)
Prune ==
    /\ Mutable
    /\ \E min_taxa \in 1..MaxMinTaxa, min_rank \in RankArgs, collapse \in BOOLEAN :
         /\ tree' = prune(tree, min_taxa, min_rank, collapse)
         /\ op' = [name |-> "prune", min_taxa |-> min_taxa,
                   min_rank |-> min_rank, collapse |-> collapse,
                   returned |-> PruneReturn(tree')]
    /\ UNCHANGED <<taxonomy, abundances, scores, out, done, mtree>>

Next == Grow \/ Shape \/ Prune

\* growth, shaping and pruning of one sample's tree
Spec == Init /\ [][Next]_vars

\* ---- the queries on a grown or shaped tree --------------------------------
InitQuery ==
    /\ taxonomy \in Taxonomies
    /\ abundances \in PresenceCountersOf(taxonomy)
    /\ scores = ScoredAll(abundances)
    /\ Fresh

\* tree.get_taxa(abundance, accs, scores, ranks, mindepth, maxdepth,
\*               include, exclude, just_level)
GetTaxa ==
    /\ Mutable
    /\ \E mindepth \in 0..MaxDepthArg, maxdepth \in 0..MaxDepthArg,
          include \in TaxidSets(taxonomy), exclude \in TaxidSets(taxonomy),
          just_level \in RankArgs, outs \in TaxaArgs :
         /\ out' = get_taxa(tree, outs, mindepth, maxdepth, include, exclude,
                            just_level, FALSE)
         /\ op' = [name |-> "get_taxa", mindepth |-> mindepth,
                   maxdepth |-> maxdepth, include |-> include,
                   exclude |-> exclude, just_level |-> just_level]
    /\ UNCHANGED <<taxonomy, abundances, scores, tree, done, mtree>>

\* tree.get_lineage(parents, taxids)
GetLineage ==
    /\ Mutable
    /\ \E taxids \in SeqsUpTo(TaxidsOf(taxonomy) \cup UnknownTaxids, MaxRequests) :
         /\ out' = get_lineage(tree, taxonomy.parents, taxids)
         /\ op' = [name |-> "get_lineage", taxids |-> taxids]
    /\ UNCHANGED <<taxonomy, abundances, scores, tree, done, mtree>>

\* nodes = []; self.trace(target, nodes), on the tree or on its ROOT node,
\* with the list empty or holding the taxid of an earlier use
TraceCall ==
    /\ Mutable
    /\ \E target \in TaxidsOf(taxonomy) \cup UnknownTaxids,
          nodes \in {<<>>, <<ROOT>>}, below \in BOOLEAN :
         /\ below => HasKey(tree, ROOT)
         /\ out' = trace(IF below THEN Child(tree, ROOT) ELSE tree,
                         target, nodes)
         /\ op' = [name |-> "trace", target |-> target, nodes |-> nodes,
                   below |-> below]
    /\ UNCHANGED <<taxonomy, abundances, scores, tree, done, mtree>>

\* krona = KronaTree([sample]); tree.toxml(taxonomy, krona, None, mindepth,
\* maxdepth, include, exclude)
ToXml ==
    /\ Mutable
    /\ \E mindepth \in 0..MaxDepthArg, maxdepth \in 0..MaxDepthArg,
          include \in TaxidSets(taxonomy), exclude \in TaxidSets(taxonomy) :
         /\ out' = toxml(tree, taxonomy,
                         KronaTreeInit(SubSeq(SampleNames, 1, 1)), <<>>,
                         mindepth, maxdepth, include, exclude, FALSE)
         /\ op' = [name |-> "toxml", mindepth |-> mindepth,
                   maxdepth |-> maxdepth, include |-> include,
                   exclude |-> exclude]
    /\ UNCHANGED <<taxonomy, abundances, scores, tree, done, mtree>>

NextQuery ==
    Grow \/ Shape \/ GetTaxa \/ GetLineage \/ TraceCall \/ ToXml

SpecQuery == InitQuery /\ [][NextQuery]_vars

\* ---- several samples merged in a MultiTree --------------------------------
MultiTaxonomies == {TaxChain, TaxBush}

InitMulti ==
    /\ taxonomy \in MultiTaxonomies
    /\ abundances \in PresenceCountersOf(taxonomy)
    /\ scores = ScoredAll(abundances)
    /\ Fresh

\* the sample's dicts are read from its shaped tree: tree.get_taxa(abundance,
\* accs, scores) with the other arguments at their defaults
Extract ==
    /\ op.name = "shape"
    /\ done' = Append(done, get_taxa(tree, SampleTaxa, 0, 0, {}, {}, <<>>, FALSE))
    /\ op' = [name |-> "extracted"]
    /\ UNCHANGED <<taxonomy, abundances, scores, tree, out, mtree>>

\* the next sample is read and gets a tree of its own
NewSample ==
    /\ op.name = "extracted"
    /\ Len(done) < MaxSamples
    /\ abundances' \in PresenceCountersOf(taxonomy)
    /\ scores' = ScoredAll(abundances')
    /\ tree' = EmptyTree
    /\ op' = [name |-> "init"]
    /\ UNCHANGED <<taxonomy, out, done, mtree>>

SamplesDone == SubSeq(SampleNames, 1, Len(done))

DictBySample(field) ==
    [s \in Range(SamplesDone) |->
        done[CHOOSE i \in DOMAIN done : SampleNames[i] = s][field][1]]

\* mtree = MultiTree(samples=samples);
\* mtree.grow(taxonomy, abundances, accs, scores)
MultiGrow ==
    /\ op.name = "extracted"
    /\ LET grown == MultiTree_grow(EmptyMultiTree(SamplesDone), taxonomy,
                                   DictBySample("abundance"),
                                   DictBySample("accs"),
                                   DictBySample("scores"), ROOT, <<>>)
       IN /\ mtree' = grown.self
          /\ op' = [name |-> IF grown.raised THEN "RecursionError"
                             ELSE "multi_grow"]
    /\ UNCHANGED <<taxonomy, abundances, scores, tree, out, done>>

\* the MultiTree is grown and can be exported (an export leaves it as it is)
MultiReady == op.name = "multi_grow"

\* the indexes of the samples of interest: None or a list of indexes
SampleIndexes == SeqsUpTo(0..(Len(done) - 1), MaxIndexes)

\* items = []; mtree.to_items(taxonomy, items, sample_indexes)
ToItems ==
    /\ MultiReady
    /\ \E sample_indexes \in SampleIndexes :
         /\ out' = to_items(mtree, taxonomy, <<>>, sample_indexes)
         /\ op' = [name |-> "to_items", sample_indexes |-> sample_indexes]
    /\ UNCHANGED <<taxonomy, abundances, scores, tree, done, mtree>>

\* krona = KronaTree(samples); mtree.toxml(taxonomy, krona)
MultiToXml ==
    /\ MultiReady
    /\ out' = MultiTree_toxml(mtree, taxonomy, KronaTreeInit(mtree.samples),
                              <<>>)
    /\ op' = [name |-> "multi_toxml"]
    /\ UNCHANGED <<taxonomy, abundances, scores, tree, done, mtree>>

NextMulti ==
    Grow \/ Shape \/ Extract \/ NewSample \/ MultiGrow \/ ToItems
    \/ MultiToXml

SpecMulti == InitMulti /\ [][NextMulti]_vars

\* ------------------------------------------------------------------------
\* Properties
\* ------------------------------------------------------------------------
RECURSIVE TotalCounts(_)
\* the sum of counts over a node and everything below it
TotalCounts(node) ==
    LET RECURSIVE Below(_)
        Below(kids) == IF kids = <<>> THEN 0
                       ELSE TotalCounts(Head(kids).node) + Below(Tail(kids))
    IN node.counts + Below(node.kids)

RECURSIVE Size(_)
\* the number of nodes, the container included
Size(node) ==
    LET RECURSIVE Below(_)
        Below(kids) == IF kids = <<>> THEN 0
                       ELSE Size(Head(kids).node) + Below(Tail(kids))
    IN 1 + Below(node.kids)

RECURSIVE AccFolded(_)
\* acc = counts + the acc of the children, here and below
AccFolded(node) ==
    /\ node.acc = node.counts + SumAcc(node.kids)
    /\ \A i \in DOMAIN node.kids : AccFolded(node.kids[i].node)

RECURSIVE NoZeroAccChild(_)
NoZeroAccChild(node) ==
    \A i \in DOMAIN node.kids :
        /\ node.kids[i].node.acc # 0
        /\ NoZeroAccChild(node.kids[i].node)

RECURSIVE NoRepeatOnPath(_, _)
\* no taxid below node is in above or occurs twice on a path
NoRepeatOnPath(node, above) ==
    \A i \in DOMAIN node.kids :
        /\ node.kids[i].tid \notin above
        /\ \A j \in DOMAIN node.kids : node.kids[j].tid = node.kids[i].tid => j = i
        /\ NoRepeatOnPath(node.kids[i].node, above \cup {node.kids[i].tid})

Root(t) == Child(t, ROOT)

GrownCounts(tid) == Get(AbundancesOrDefault(abundances), tid, 0)

\* C1: right after shape(), the acc of the root (of the container, and of the
\* ROOT node when it is still there) is the sum of counts over the nodes that
\* are left in the tree.
C1_Conservation ==
    op.name = "shape" =>
        /\ tree.acc = TotalCounts(tree)
        /\ HasKey(tree, ROOT) => Root(tree).acc = TotalCounts(Root(tree))

\* a shaped tree that lost some nodes and kept counts below the root
C1_Witness ==
    /\ op.name = "shape"
    /\ HasKey(tree, ROOT)
    /\ Root(tree).acc > Root(tree).counts
    /\ Root(tree).counts > 0
    /\ Size(tree) < 1 + Cardinality(TaxidsOf(taxonomy))

\* C2: right after shape(), every node has acc = counts + the sum of the acc
\* of its remaining children, and no remaining child has acc 0.
C2_AccFold ==
    op.name = "shape" => AccFolded(tree) /\ NoZeroAccChild(tree)

\* a shaped tree whose root has no counts of its own, with nodes removed
C2_Witness ==
    /\ op.name = "shape"
    /\ HasKey(tree, ROOT)
    /\ Root(tree).counts = 0
    /\ Len(Root(tree).kids) > 1
    /\ Size(tree) < 1 + Cardinality(TaxidsOf(taxonomy))

\* C3: prune with collapse=True (any min_taxa, any min_rank) leaves the total
\* of counts over the tree, its container included, as it was; so does prune
\* with min_taxa=1 and no min_rank, whatever collapse is.
C3_PruneConservation ==
    [][(/\ op'.name = "prune"
        /\ \/ op'.collapse
           \/ op'.min_taxa = 1 /\ op'.min_rank = <<>>)
       => TotalCounts(tree') = TotalCounts(tree)]_vars

\* a collapsing prune that moved counts of removed leaves into the root
C3_Witness ==
    /\ op.name = "prune"
    /\ op.collapse
    /\ op.min_taxa > 1
    /\ HasKey(tree, ROOT)
    /\ Root(tree).counts > GrownCounts(ROOT)
    /\ Size(tree) < 1 + Cardinality(TaxidsOf(taxonomy))

\* C4: over a taxonomy with a self-referencing child or a child that refers
\* back to an ancestor, TaxTree.grow and MultiTree.grow end without
\* exhausting the recursion and leave trees with no taxid twice on a path.
C4_CycleSafety ==
    /\ op.name # "RecursionError"
    /\ NoRepeatOnPath(tree, {})
    /\ NoRepeatOnPath(mtree, {})

\* both trees grown over the taxonomy where 3 is its own child and the
\* root is a child of 4, with 3 and 4 in both trees
C4_Witness ==
    /\ op.name = "multi_grow"
    /\ taxonomy = TaxBush
    /\ HasKey(tree, ROOT) /\ HasKey(Root(tree), 3) /\ HasKey(Root(tree), 4)
    /\ HasKey(mtree, ROOT) /\ HasKey(Root(mtree), 3) /\ HasKey(Root(mtree), 4)

RECURSIVE TidsIn(_)
\* the taxids of the nodes below node
TidsIn(node) ==
    UNION {{node.kids[i].tid} \cup TidsIn(node.kids[i].node) : i \in DOMAIN node.kids}

RECURSIVE TidsUnder(_, _)
\* the taxids of the subtrees of node keyed by tid, tid included
TidsUnder(node, tid) ==
    UNION {IF node.kids[i].tid = tid
           THEN {tid} \cup TidsIn(node.kids[i].node)
           ELSE TidsUnder(node.kids[i].node, tid) : i \in DOMAIN node.kids}

RECURSIVE TidsAtDepth(_, _)
\* the taxids d levels below the children of node (ROOT is at depth 0)
TidsAtDepth(node, d) ==
    IF d = 0 THEN {node.kids[i].tid : i \in DOMAIN node.kids}
    ELSE UNION {TidsAtDepth(node.kids[i].node, d - 1) : i \in DOMAIN node.kids}

\* the output dicts the call passed
Given == {f \in DOMAIN out : out[f] # <<>>}

\* the taxids get_taxa recorded, in any dict it was passed
Recorded == UNION {DOMAIN out[f][1] : f \in Given}

\* a call that passed a dict where every qualifying taxid is recorded
\* (scores leaves out the taxids with no score)
PlainQuery ==
    /\ op.name = "get_taxa"
    /\ Given \cap {"abundance", "accs", "ranks"} # {}
    /\ op.just_level = <<>>

\* C5: get_taxa(mindepth=d, maxdepth=d), d >= 1, with empty include and
\* exclude and no just_level records exactly the nodes of depth d (on the
\* chain root->2->3->4 and d = 2: exactly 3).
C5_DepthBounds ==
    (/\ PlainQuery
     /\ op.include = {} /\ op.exclude = {}
     /\ op.mindepth = op.maxdepth /\ op.mindepth >= 1)
    => Recorded = TidsAtDepth(tree, op.mindepth)

\* C6: get_taxa with include={A}, exclude={B}, B below A, and no depth bound
\* records A and the descendants of A that are neither B nor below B, and
\* nothing else.
C6_IncludeExclude ==
    (/\ PlainQuery
     /\ op.mindepth = 0 /\ op.maxdepth = 0)
    => \A A \in TidsIn(tree), B \in TidsIn(tree) :
         (op.include = {A} /\ op.exclude = {B} /\ B # A /\ B \in TidsUnder(tree, A))
         => Recorded = TidsUnder(tree, A) \ TidsUnder(tree, B)

\* include={1}, exclude={3} over the fork: 1, 2 and 5 recorded, 3 and 4 not
C6_Witness ==
    /\ PlainQuery
    /\ op.mindepth = 0 /\ op.maxdepth = 0
    /\ taxonomy = TaxFork
    /\ op.include = {1} /\ op.exclude = {3}
    /\ 4 \in TidsUnder(tree, 3)
    /\ Recorded = {1, 2, 5}

\* C7: whatever include is, get_taxa records no taxid listed in exclude and
\* no taxid of the subtree below one.
C7_ExcludedSubtrees ==
    op.name = "get_taxa" =>
        \A B \in op.exclude : Recorded \cap TidsUnder(tree, B) = {}

RECURSIVE IsPathFrom(_, _, _)
\* path[i..] names a node below node, each taxid a child of the one before
IsPathFrom(node, path, i) ==
    /\ HasKey(node, path[i])
    /\ i < Len(path) => IsPathFrom(Child(node, path[i]), path, i + 1)

IsLineage(path, t) ==
    /\ path # <<>>
    /\ path[1] = ROOT
    /\ path[Len(path)] = t
    /\ IsPathFrom(tree, path, 1)

Requested == Range(op.taxids)

\* C8: get_lineage gives every requested taxid that is in parents and in the
\* tree the tree path from the root to it: first ROOT, last the taxid, each
\* element a child of the one before; ROOT itself gets <<ROOT>>.
C8_LineageCorrect ==
    op.name = "get_lineage" =>
        \A t \in Requested :
            /\ (t \in DOMAIN taxonomy.parents /\ t \in TidsIn(tree))
               => /\ t \in DOMAIN out.nodes_traced
                  /\ IsLineage(out.nodes_traced[t], t)
            /\ t = ROOT => out.nodes_traced[t] = <<ROOT>>

\* 4 traced over the fork, after the subtree of 2 was tried and given up
C8_Witness ==
    /\ op.name = "get_lineage"
    /\ taxonomy = TaxFork
    /\ HasKey(Root(tree), 2) /\ Child(Root(tree), 2).kids # <<>>
    /\ 4 \in DOMAIN out.nodes_traced
    /\ out.nodes_traced[4] = <<1, 3, 4>>

BadTaxid(t) ==
    \/ t \notin DOMAIN taxonomy.parents
    \/ t # ROOT /\ t \notin TidsIn(tree)

\* C9: a requested taxid missing in parents, or in parents but not in the
\* tree, gets a warning in the log and no entry; every other requested
\* taxid gets its entry, wherever it stands in the request.
C9_LineageBatch ==
    op.name = "get_lineage" =>
        /\ \A t \in Requested :
             /\ t \notin DOMAIN taxonomy.parents
                => MissingInParents(t) \in Range(out.log)
             /\ (t \in DOMAIN taxonomy.parents /\ BadTaxid(t))
                => MissingInTree(t) \in Range(out.log)
             /\ BadTaxid(t) <=> t \notin DOMAIN out.nodes_traced
        /\ Len(out.log) = Cardinality({i \in DOMAIN op.taxids : BadTaxid(op.taxids[i])})
        /\ DOMAIN out.nodes_traced \subseteq Requested

\* a request whose first taxid is in parents but no longer in the tree, and
\* whose second taxid is traced all the same
C9_Witness ==
    /\ op.name = "get_lineage"
    /\ Len(op.taxids) = 2
    /\ out.log = <<MissingInTree(op.taxids[1])>>
    /\ op.taxids[2] # ROOT
    /\ op.taxids[2] \in DOMAIN out.nodes_traced

\* the accumulated count sample i has for taxid
AccOfSample(i, taxid) == Get(done[i].accs[1], taxid, 0)

RECURSIVE SlotsOfAbsent(_)
\* below node, a sample with acc 0 for a taxid has counts 0 and acc 0 there
SlotsOfAbsent(node) ==
    \A k \in DOMAIN node.kids :
        /\ \A i \in DOMAIN done :
             AccOfSample(i, node.kids[k].tid) = 0
             => /\ node.kids[k].node.counts[i] = 0
                /\ node.kids[k].node.accs[i] = 0
        /\ SlotsOfAbsent(node.kids[k].node)

\* C10: the MultiTree grown from the dicts of shaped trees has a node for a
\* taxid exactly when some sample has a nonzero acc for it, and the slot of
\* a sample with acc 0 for the taxid holds counts 0.
C10_MultiUnion ==
    op.name = "multi_grow" =>
        /\ \A X \in TaxidsOf(taxonomy) :
             X \in TidsIn(mtree) <=> \E i \in DOMAIN done : AccOfSample(i, X) # 0
        /\ SlotsOfAbsent(mtree)

\* taxid 4 of the chain: seen in sample 1 only, and in the MultiTree
C10_Witness ==
    /\ op.name = "multi_grow"
    /\ taxonomy = TaxChain
    /\ Len(done) = 2
    /\ AccOfSample(1, 4) > 0 /\ AccOfSample(2, 4) = 0
    /\ AccOfSample(2, ROOT) > 0
    /\ 4 \in TidsIn(mtree)

\* C11: shape() applied to a tree that shape() has just produced changes
\* nothing: the same nodes, counts, acc and scores.
C11_ShapeIdempotent ==
    op.name = "shape" => shape(tree) = tree

\* a shaped tree that lost nodes and whose root got a computed score
C11_Witness ==
    /\ op.name = "shape"
    /\ HasKey(tree, ROOT)
    /\ Root(tree).counts = 0
    /\ Root(tree).score # ZeroScore
    /\ Len(Root(tree).kids) > 1
    /\ Size(tree) < 1 + Cardinality(TaxidsOf(taxonomy))

RECURSIVE SumScoreAcc(_)
\* the sum of score * acc over the children
SumScoreAcc(kids) ==
    IF kids = <<>> THEN <<0, 1>>
    ELSE RatAdd(RatScale(Head(kids).node.score, Head(kids).node.acc, 1),
                SumScoreAcc(Tail(kids)))

RECURSIVE ShapeScored(_, _)
\* the scores of after, the tree that shape() made of before
ShapeScored(before, after) ==
    /\ after.counts # 0 => after.score = before.score
    /\ after.counts = 0 /\ after.acc = 0 => after.score = before.score
    /\ after.counts = 0 /\ after.acc # 0
       => RatScale(after.score, after.acc, 1) = SumScoreAcc(after.kids)
    /\ \A i \in DOMAIN after.kids :
         ShapeScored(Child(before, after.kids[i].tid), after.kids[i].node)

RECURSIVE GrowthScores(_)
\* below node, a node with counts has the score grow() was given for it
GrowthScores(node) ==
    \A i \in DOMAIN node.kids :
        /\ node.kids[i].node.counts # 0
           => node.kids[i].node.score = Get(scores, node.kids[i].tid, NO_SCORE)
        /\ GrowthScores(node.kids[i].node)

\* C12: shape() gives every node with counts 0 and acc > 0 the average of the
\* scores of its remaining children weighted by their acc, and leaves the
\* score of every other node (counts > 0, or counts 0 and acc 0) as it was:
\* on a tree just grown, a node with counts keeps the score of its growth.
C12_ShapeScoring ==
    [][op'.name = "shape" =>
         /\ ShapeScored(tree, tree')
         /\ op.name = "grow" => GrowthScores(tree')]_vars

\* a root without counts over two children of different score and acc
C12_Witness ==
    /\ op.name = "shape"
    /\ HasKey(tree, ROOT)
    /\ Root(tree).counts = 0
    /\ Len(Root(tree).kids) = 2
    /\ Root(tree).kids[1].node.score # Root(tree).kids[2].node.score
    /\ Root(tree).kids[1].node.acc # Root(tree).kids[2].node.acc
    /\ Root(tree).score # Root(tree).kids[1].node.score
    /\ Root(tree).score # Root(tree).kids[2].node.score

\* C13 as stated: grown from empty abundances, the tree has the count 1 at
\* the root and is the root alone (below its container).
C13_OneNodeGrown ==
    (DOMAIN abundances = {} /\ op.name = "grow")
    => /\ Root(tree).counts = 1
       /\ Size(tree) = 2

\* C13: grown from empty abundances, the tree has a node for every taxid of
\* the taxonomy, with the count 1 at the root and 0 everywhere else; it is
\* the shape() that follows that leaves the root alone.
C13_EmptySample ==
    [][DOMAIN abundances = {} =>
         /\ op'.name = "grow"
            => /\ TidsIn(tree') = TaxidsOf(taxonomy)
               /\ Root(tree').counts = 1
               /\ TotalCounts(tree') = 1
         /\ op.name = "grow" /\ op'.name = "shape"
            => /\ Size(tree') = 2
               /\ HasKey(tree', ROOT)
               /\ Root(tree').counts = 1
               /\ Root(tree').acc = 1]_vars

\* the empty sample, grown and shaped down to its root
C13_Witness ==
    /\ DOMAIN abundances = {}
    /\ op.name = "shape"
    /\ TidsIn(tree) = {ROOT}
    /\ Root(tree).counts = 1

RECURSIVE BranchesKept(_, _, _, _, _)
\* a child of before that has branches left after its own pruning is in
\* after, as pruned; so below it
BranchesKept(before, after, min_taxa, min_rank, collapse) ==
    \A i \in DOMAIN before.kids :
        LET tid == before.kids[i].tid
            pruned == prune(before.kids[i].node, min_taxa, min_rank, collapse)
        IN pruned.kids # <<>>
           => /\ HasKey(after, tid)
              /\ Child(after, tid) = pruned
              /\ BranchesKept(before.kids[i].node, pruned,
                              min_taxa, min_rank, collapse)

\* C14: prune() never removes a child that has a child left after its own
\* pruning, and returns True exactly when the node it ran on has a child
\* left.
C14_OnlyLeavesPruned ==
    [][op'.name = "prune" =>
         /\ BranchesKept(tree, tree', op'.min_taxa, op'.min_rank,
                         op'.collapse)
         /\ op'.returned <=> tree'.kids # <<>>]_vars

\* a root below min_taxa that stays because a child of it stays, in a tree
\* that lost nodes
C14_Witness ==
    /\ op.name = "prune"
    /\ op.returned
    /\ op.min_rank = <<>>
    /\ HasKey(tree, ROOT)
    /\ Root(tree).counts < op.min_taxa
    /\ Root(tree).kids # <<>>
    /\ Size(tree) < 1 + Cardinality(TaxidsOf(taxonomy))

\* C15 as stated: prune(), whatever its arguments, takes a tree where every
\* acc is counts + the acc of the remaining children (as shape() leaves it)
\* to a tree where that holds again.
C15_AccUnderPrune ==
    [][AccFolded(tree) /\ op'.name = "prune" => AccFolded(tree')]_vars

\* the sum of the counts of the children of before that after has lost
RemovedCounts(before, after) ==
    LET RECURSIVE Sum(_)
        Sum(kids) ==
          IF kids = <<>> THEN 0
          ELSE (IF HasKey(after, Head(kids).tid) THEN 0
                ELSE Head(kids).node.counts) + Sum(Tail(kids))
    IN Sum(before.kids)

RECURSIVE NoMassMoved(_, _)
\* counts and score as before; acc less the counts of the leaves removed
\* from the node itself, not below 0
NoMassMoved(before, after) ==
    /\ after.counts = before.counts
    /\ after.score = before.score
    /\ LET left == before.acc - RemovedCounts(before, after)
       IN after.acc = IF left > 0 THEN left ELSE 0
    /\ \A i \in DOMAIN after.kids :
         NoMassMoved(Child(before, after.kids[i].tid), after.kids[i].node)

RECURSIVE AccNotRaised(_, _)
AccNotRaised(before, after) ==
    /\ after.acc <= before.acc
    /\ \A i \in DOMAIN after.kids :
         AccNotRaised(Child(before, after.kids[i].tid), after.kids[i].node)

\* the total of counts of the tree as grown
GrownTotal ==
    TotalCounts(grow(EmptyTree, taxonomy, AbundancesOrDefault(abundances),
                     scores, ROOT, <<>>).self)

\* C16: prune with collapse=False leaves counts and score of every node that
\* stays as they were and takes from the acc of a node the counts of the
\* leaves removed from it, not below 0; no prune raises the acc of a node.
C16_NoCollapse ==
    [][op'.name = "prune" =>
         /\ ~op'.collapse => NoMassMoved(tree, tree')
         /\ AccNotRaised(tree, tree')]_vars

\* a shaped tree after a non-collapsing prune took counts off the root's acc
C16_Witness ==
    /\ op.name = "prune"
    /\ ~op.collapse
    /\ HasKey(tree, ROOT)
    /\ Root(tree).acc > 0
    /\ Root(tree).acc < GrownTotal
    /\ Root(tree).acc = Root(tree).counts + SumAcc(Root(tree).kids)
    /\ TotalCounts(tree) < GrownTotal

\* the position of the row of a taxid in the items
Pos(tid) == CHOOSE i \in DOMAIN out : out[i][1] = tid

RECURSIVE PreOrdered(_)
\* below node: the row of a node before the rows of what is below it, and
\* all of them before the row of the next sibling
PreOrdered(node) ==
    \A i \in DOMAIN node.kids :
        LET k == node.kids[i]
        IN /\ \A d \in TidsIn(k.node) : Pos(k.tid) < Pos(d)
           /\ \A j \in DOMAIN node.kids :
                i < j => \A d \in TidsIn(k.node) \cup {k.tid} :
                            Pos(d) < Pos(node.kids[j].tid)
           /\ PreOrdered(k.node)

RECURSIVE RowsRight(_, _)
\* below node, the row of every taxid holds what the claim says
RowsRight(node, sample_indexes) ==
    \A i \in DOMAIN node.kids :
        LET k == node.kids[i]
            row == out[Pos(k.tid)][2]
            n == Len(mtree.samples)
        IN /\ IF sample_indexes = <<>>
              THEN /\ Len(row) = 3 * n + 2
                   /\ \A s \in 1..n :
                        /\ row[3 * s - 2] = IntCell(k.node.accs[s])
                        /\ row[3 * s - 1] = IntCell(k.node.counts[s])
                        /\ row[3 * s] = FloatCell(k.node.score[s])
                   /\ row[3 * n + 1] = RankName(taxonomy, k.tid)
                   /\ row[3 * n + 2] = get_name(taxonomy, k.tid)
              ELSE /\ Len(row) = Len(sample_indexes)
                   /\ \A x \in DOMAIN sample_indexes :
                        row[x] = IntCell(k.node.counts[sample_indexes[x] + 1])
           /\ RowsRight(k.node, sample_indexes)

\* C17: to_items gives one row for each node of the MultiTree, keyed by its
\* taxid, in pre-order; without sample indexes (None or an empty list) the
\* row is acc, count, score of each sample in order, then rank and name; with
\* sample indexes it is the counts of those samples in the order given.
C17_ToItems ==
    op.name = "to_items" =>
        /\ Len(out) = Size(mtree) - 1
        /\ {out[i][1] : i \in DOMAIN out} = TidsIn(mtree)
        /\ PreOrdered(mtree)
        /\ RowsRight(mtree, op.sample_indexes)

\* two samples asked for in reverse order, differing at the third row
C17_Witness ==
    /\ op.name = "to_items"
    /\ Len(done) = 2
    /\ op.sample_indexes = <<1, 0>>
    /\ Len(out) > 2
    /\ out[3][2] = <<IntCell(0), IntCell(1)>>

\* the taxid an exported <node> element carries
TidOfElem(elem) == StrInt(elem.tid[1])

EmittedTids == {TidOfElem(out.nodes[i]) : i \in DOMAIN out.nodes}

ElemOf(tid) == CHOOSE i \in DOMAIN out.nodes : TidOfElem(out.nodes[i]) = tid

RECURSIVE NearestEmitted(_)
\* the element of the nearest exported ancestor of a taxid in the tree, the
\* root of the export if there is none
NearestEmitted(tid) ==
    IF tid = ROOT THEN 0
    ELSE LET parent == taxonomy.parents[tid]
         IN IF parent \in EmittedTids THEN ElemOf(parent)
            ELSE NearestEmitted(parent)

\* C18 as stated: TaxTree.toxml, whatever mindepth, maxdepth, include and
\* exclude, ends without an exception, exports one element for each node
\* that get_taxa records with the same arguments, a parent before its
\* children, each element under the element of its nearest exported
\* ancestor in the tree (the root of the export if none).
C18_ToXmlTraversal ==
    op.name = "toxml" =>
        /\ out.raised = <<>>
        /\ Len(out.nodes) = Cardinality(EmittedTids)
        /\ EmittedTids =
             DOMAIN get_taxa(tree, RanksOnly, op.mindepth, op.maxdepth,
                             op.include, op.exclude, <<>>, FALSE).ranks[1]
        /\ \A i \in DOMAIN out.nodes :
             /\ out.nodes[i].parent < i
             /\ out.nodes[i].parent = NearestEmitted(TidOfElem(out.nodes[i]))

\* the caller of trace: the tree or its ROOT node
TraceSelf == IF op.below THEN Root(tree) ELSE tree

\* what trace added to the list it was given
TraceAdded == SubSeq(out.nodes, Len(op.nodes) + 1, Len(out.nodes))

\* C19: when trace returns False the list is as it was given; when it
\* returns True the list is the one given followed by the tree path from a
\* child of the caller down to the target, and by nothing else.
C19_TraceBacktracking ==
    op.name = "trace" =>
        IF out.found
        THEN /\ Len(out.nodes) > Len(op.nodes)
             /\ SubSeq(out.nodes, 1, Len(op.nodes)) = op.nodes
             /\ TraceAdded[Len(TraceAdded)] = op.target
             /\ IsPathFrom(TraceSelf, TraceAdded, 1)
        ELSE out.nodes = op.nodes

\* 4 found over the fork after the subtree of 2 was tried and given up, the
\* path added to a list that was not empty
C19_Witness ==
    /\ op.name = "trace"
    /\ taxonomy = TaxFork
    /\ ~op.below
    /\ op.nodes = <<ROOT>>
    /\ op.target = 4
    /\ out.found
    /\ out.nodes = <<ROOT, 1, 3, 4>>
    /\ Child(Root(tree), 2).kids # <<>>

RECURSIVE Entries(_)
\* the items (taxid, node) of a tree, at every depth
Entries(node) ==
    UNION {{node.kids[i]} \cup Entries(node.kids[i].node) : i \in DOMAIN node.kids}

NodeOf(t, tid) == (CHOOSE e \in Entries(t) : e.tid = tid).node

\* C20 as stated: the <node> element of a taxid has an 'unassigned' element
\* exactly when the count of some sample for the taxid is not 0.
C20_UnassignedOmitted ==
    op.name = "multi_toxml" =>
        \A i \in DOMAIN out.nodes :
            out.nodes[i].unassigned # <<>>
            <=> \E s \in DOMAIN mtree.samples :
                   NodeOf(mtree, TidOfElem(out.nodes[i])).counts[s] # 0

RECURSIVE LeavesAtLeast(_, _)
\* below node, every node without children has counts >= k
LeavesAtLeast(node, k) ==
    \A i \in DOMAIN node.kids :
        /\ node.kids[i].node.kids = <<>> => node.kids[i].node.counts >= k
        /\ LeavesAtLeast(node.kids[i].node, k)

RECURSIVE HasLowBranch(_, _)
\* below node there is a node with children and counts < k
HasLowBranch(node, k) ==
    \E i \in DOMAIN node.kids :
        \/ node.kids[i].node.kids # <<>> /\ node.kids[i].node.counts < k
        \/ HasLowBranch(node.kids[i].node, k)

\* C21: after prune(min_taxa=k, min_rank=None, collapse), collapsing or not,
\* every node without children left below the top-level container has
\* counts >= k.
C21_LeavesAboveMinTaxa ==
    (op.name = "prune" /\ op.min_rank = <<>>)
    => LeavesAtLeast(tree, op.min_taxa)

\* a pruned tree that lost nodes and kept a node with counts below min_taxa
\* over a leaf that has enough
C21_Witness ==
    /\ op.name = "prune"
    /\ op.min_rank = <<>>
    /\ op.min_taxa > 1
    /\ ~op.collapse
    /\ HasLowBranch(tree, op.min_taxa)
    /\ Size(tree) > 2
    /\ Size(tree) < 1 + Cardinality(TaxidsOf(taxonomy))

\* C22: prune() with the arguments of the prune() that has just returned
\* changes nothing: the same nodes, counts, acc and scores, the top-level
\* container included.
C22_PruneIdempotent ==
    op.name = "prune"
    => prune(tree, op.min_taxa, op.min_rank, op.collapse) = tree

\* a collapsing prune with a min_rank that removed nodes, moved counts into
\* the root and left it with a child
C22_Witness ==
    /\ op.name = "prune"
    /\ op.collapse
    /\ op.min_rank # <<>>
    /\ HasKey(tree, ROOT)
    /\ Root(tree).kids # <<>>
    /\ Root(tree).counts > GrownCounts(ROOT)
    /\ Size(tree) < 1 + Cardinality(TaxidsOf(taxonomy))

RECURSIVE SameTree(_, _)
\* the MultiTree node m has the children of the TaxTree node t, in the same
\* order, with the counts, acc and score of t's in the slot of the sample,
\* and so below
SameTree(t, m) ==
    /\ Len(m.kids) = Len(t.kids)
    /\ \A i \in DOMAIN t.kids :
         /\ m.kids[i].tid = t.kids[i].tid
         /\ m.kids[i].node.counts = <<t.kids[i].node.counts>>
         /\ m.kids[i].node.accs = <<t.kids[i].node.acc>>
         /\ m.kids[i].node.score = <<t.kids[i].node.score>>
         /\ SameTree(t.kids[i].node, m.kids[i].node)

\* C23: the MultiTree grown from the dicts that get_taxa (default arguments)
\* extracted from one shaped TaxTree, as its only sample, has the taxids of
\* that tree in the same parent-child structure, and at every node the
\* counts, acc and score of the TaxTree node.
C23_RoundTrip ==
    (op.name = "multi_grow" /\ Len(done) = 1) => SameTree(tree, mtree)

\* one sample over the chain with counts at 2 and 4: the root and 3 have a
\* computed acc and no counts, in both trees
C23_Witness ==
    /\ op.name = "multi_grow"
    /\ Len(done) = 1
    /\ taxonomy = TaxChain
    /\ DOMAIN abundances = {2, 4}
    /\ Size(mtree) = 5
    /\ Root(mtree).accs = <<2>>
    /\ Root(mtree).counts = <<0>>

====
